---- MODULE Spec2Model ----
(***************************************************************************)
(* Merrill Portfolio Beta: the two userscripts of merrill-portfolio-beta.js *)
(* (v0.1.0, Stooq only; v0.2.0, Yahoo/Stooq with a localStorage cache).     *)
(*                                                                          *)
(* The model follows the "Calculate" click handlers.  A handler is an async *)
(* function: it runs from one suspension point (await of a fetch or of a    *)
(* sleep) to the next.  Every getCachedBeta call reads Date.now() afresh,   *)
(* so the v0.2.0 handler is additionally cut before each cache lookup of    *)
(* the per-holding loop; the clock (Tick) may advance at every cut.         *)
(*                                                                          *)
(* Numbers.  JavaScript numbers are modelled exactly as reduced fractions   *)
(* [num, den]; a beta carries a tag k: "num" (a finite number), "nan"       *)
(* (NaN), "null" (JSON null) or "undef" (a missing property).  Returns are  *)
(* kept in units of 1/RET_UNIT; all closes of the model divide RET_UNIT, so *)
(* p1/p0 - 1 is exact.                                                      *)
(*                                                                          *)
(* Strings that the code inspects character by character (tickers) are      *)
(* sequences of one-character strings; storage keys are TLA+ strings.       *)
(*                                                                          *)
(* Spec follows one batch (one click on Calculate) of either script, from   *)
(* a localStorage left behind by earlier batches.  SpecCache exercises the  *)
(* cache functions getCachedBeta / setCachedBeta on their own.              *)
(***************************************************************************)
EXTENDS Integers, Sequences, FiniteSets, TLC

VARIABLES
    ver,        \* which script the page runs: "v1" (v0.1.0) or "v2" (v0.2.0)
    pc,         \* position of the click handler
    now,        \* Date.now(), in ms
    store,      \* localStorage: key string -> stored value
    source,     \* v0.2.0: #mb_source value
    marketSym,  \* normalized market symbol
    lookback,   \* lookback window
    holdings,   \* parsed holdings, weights normalized once past the checks
    idx,        \* 1-based index of the holding being processed (i / loop position)
    marketRets, \* market return series of the batch, or NoRets
    rows,       \* v0.1.0: price rows returned by gmFetchText while fetchPrices sleeps
    results,    \* results array
    total,      \* reported portfolio beta
    err,        \* text shown after "Error: " / the no-holdings message
    fetchLog,   \* history: one record per network fetch issued in this batch
    slept,      \* history: a sleep has completed since the last fetch was issued
    inflight,   \* history: number of GM_xmlhttpRequest calls not yet resolved
    setCalls,   \* history: localStorage.setItem calls made by this batch
    lastPut,    \* history: the last setCachedBeta call
    got,        \* history: the last getCachedBeta call and what it returned
    calls,      \* SpecCache: number of cache operations so far
    lookups,    \* history: the cache lookups of the batch, in the order made
    calc        \* SpecFunctions: the last function call, its arguments and its value

vars == <<ver, pc, now, store, source, marketSym, lookback, holdings, idx,
          marketRets, rows, results, total, err, fetchLog, slept, inflight,
          setCalls, lastPut, got, calls, lookups, calc>>

----------------------------------------------------------------------------
(* Bounds of the model *)

MaxLines == 2       \* lines in the holdings textarea
MaxCalls == 3       \* SpecCache: cache operations in a row
MaxVecLen == 2      \* SpecFunctions: length of the short return vectors
MaxDates == 3       \* SpecFunctions: dates of the series handed to alignReturns
MaxRespLines == 2   \* SpecFunctions: data lines (or quotes) of a response
HistLen == 22       \* rows of a long price history

(* Program constants *)

DEFAULT_LOOKBACK_DAYS == 252
CACHE_PREFIX == "mb_beta_cache_v2_"
CACHE_DURATION_MS == 24 * 60 * 60 * 1000
SLEEP_MS == 1000
MIN_POINTS == 20
V1_CUSHION == 5
V2_CUSHION == 10
V1_MIN_LOOKBACK == 60
V1_MAX_LOOKBACK == 1500
RET_UNIT == 2 * 4   \* least common multiple of the closes the model uses


----------------------------------------------------------------------------
(* Numbers *)

Abs(x) == IF x < 0 THEN -x ELSE x

RECURSIVE GCD(_, _)
GCD(a, b) == IF b = 0 THEN a ELSE GCD(b, a % b)

\* the fraction n/d in lowest terms, d > 0
Rat(n, d) ==
    LET g == GCD(Abs(n), Abs(d))
        s == IF d < 0 THEN -1 ELSE 1
    IN  [num |-> (s * n) \div g, den |-> (s * d) \div g]

RZero == [num |-> 0, den |-> 1]
RAdd(x, y) == Rat(x.num * y.den + y.num * x.den, x.den * y.den)
\* products are cross-reduced first, so that intermediate values stay small
RMul(x, y) ==
    LET g1 == GCD(Abs(x.num), y.den)
        g2 == GCD(Abs(y.num), x.den)
    IN  Rat((x.num \div g1) * (y.num \div g2), (x.den \div g2) * (y.den \div g1))
RDiv(x, y) == RMul(x, Rat(y.den, y.num))
RPos(x) == x.num > 0

Num(n, d) == [k |-> "num", num |-> Rat(n, d).num, den |-> Rat(n, d).den]
NaN == [k |-> "nan", num |-> 0, den |-> 1]
JsonNull == [k |-> "null", num |-> 0, den |-> 1]
Undefined == [k |-> "undef", num |-> 0, den |-> 1]
AsRat(b) == [num |-> b.num, den |-> b.den]

\* isNaN(x): ToNumber(x) is NaN.  ToNumber(null) is 0, ToNumber(undefined) is NaN.
isNaN(b) == b.k \in {"nan", "undef"}
\* Number.isFinite(x): x is a number and finite
NumberIsFinite(b) == b.k = "num"

RECURSIVE SumSeq(_)
SumSeq(s) == IF s = <<>> THEN 0 ELSE Head(s) + SumSeq(Tail(s))

----------------------------------------------------------------------------
(* Strings *)

Lowers == <<"a","b","c","d","e","f","g","h","i","j","k","l","m",
            "n","o","p","q","r","s","t","u","v","w","x","y","z">>
Uppers == <<"A","B","C","D","E","F","G","H","I","J","K","L","M",
            "N","O","P","Q","R","S","T","U","V","W","X","Y","Z">>

IsLower(c) == \E p \in 1..26 : Lowers[p] = c
IsUpper(c) == \E p \in 1..26 : Uppers[p] = c
IsLetter(c) == IsLower(c) \/ IsUpper(c)
IsSpace(c) == c \in {" ", "\t"}
UpperChar(c) == IF IsLower(c) THEN Uppers[CHOOSE p \in 1..26 : Lowers[p] = c] ELSE c
LowerChar(c) == IF IsUpper(c) THEN Lowers[CHOOSE p \in 1..26 : Uppers[p] = c] ELSE c

toUpperCase(s) == [p \in 1..Len(s) |-> UpperChar(s[p])]
toLowerCase(s) == [p \in 1..Len(s) |-> LowerChar(s[p])]

RECURSIVE TrimLeft(_)
TrimLeft(s) == IF s # <<>> /\ IsSpace(Head(s)) THEN TrimLeft(Tail(s)) ELSE s
RECURSIVE TrimRight(_)
TrimRight(s) ==
    IF s # <<>> /\ IsSpace(s[Len(s)]) THEN TrimRight(SubSeq(s, 1, Len(s) - 1)) ELSE s
trim(s) == TrimRight(TrimLeft(s))

\* s.replace(/\s+/g, "")
StripSpaces(s) == SelectSeq(s, LAMBDA c : ~IsSpace(c))
\* s.replace(/\./g, "-")
DotsToHyphens(s) == [p \in 1..Len(s) |-> IF s[p] = "." THEN "-" ELSE s[p]]
includesDot(s) == \E p \in 1..Len(s) : s[p] = "."
\* /\.[a-z]{2,}$/i.test(s)
HasSuffix(s) ==
    \E p \in 1..Len(s) :
        /\ s[p] = "."
        /\ Len(s) - p >= 2
        /\ \A q \in (p + 1)..Len(s) : IsLetter(s[q])

RECURSIVE Str(_)
Str(s) == IF s = <<>> THEN "" ELSE Head(s) \o Str(Tail(s))

\* v0.1.0 normalizeToStooqSymbol
normalizeToStooqSymbol(rawTicker) ==
    LET t == trim(rawTicker)
        u == StripSpaces(t)
    IN  IF t = <<>> THEN <<>>
        ELSE IF HasSuffix(t) THEN toLowerCase(t)
        ELSE IF includesDot(u) THEN toLowerCase(u)
        ELSE toLowerCase(u) \o <<".", "u", "s">>

\* v0.2.0 normalizeTicker
normalizeTicker(raw, src) ==
    LET t == toUpperCase(trim(raw))
        u == StripSpaces(t)
    IN  IF t = <<>> THEN <<>>
        ELSE IF src = "stooq"
             THEN IF HasSuffix(t) THEN toLowerCase(t)
                  ELSE IF includesDot(u) THEN toLowerCase(u)
                  ELSE toLowerCase(u) \o <<".", "u", "s">>
             ELSE DotsToHyphens(t)

----------------------------------------------------------------------------
(* Cache (v0.2.0) *)

\* What localStorage holds under a key is a string; the model keeps the class
\* of that string:
\*   "rec"     JSON of {beta, n, timestamp} with a numeric timestamp
\*   "nots"    JSON of {beta, n}: the timestamp property is missing
\*   "badts"   JSON of {beta, n, timestamp} with a non-numeric timestamp
\*   "null"    the text null
\*   "garbage" text that JSON.parse rejects
\*   "absent"  getItem returns null
StoredRec(beta, n, ts) == [kind |-> "rec", beta |-> beta, n |-> n, ts |-> ts]
Malformed(kind, beta, n) == [kind |-> kind, beta |-> beta, n |-> n, ts |-> 0]
AbsentItem == [kind |-> "absent", beta |-> Undefined, n |-> 0, ts |-> 0]

CacheKey(src, symbol, market, lb) ==
    CACHE_PREFIX \o src \o "_" \o Str(symbol) \o "_" \o Str(market) \o "_" \o ToString(lb)

getItem(st, key) == IF key \in DOMAIN st THEN st[key] ELSE AbsentItem
\* localStorage.clear() in place of removeItem(key)
clearItems(st, key) == [k \in {} |-> st[k]]
removeItem(st, key) == [k \in DOMAIN st \ {key} |-> st[k]]
setItem(st, key, v) == [k \in DOMAIN st \cup {key} |-> IF k = key THEN v ELSE st[k]]

\* JSON.stringify of a number: NaN becomes null
JsonNumber(b) == IF b.k = "num" THEN b ELSE JsonNull

\* Date.now() - data.timestamp > CACHE_DURATION_MS; the difference is NaN, and
\* the comparison false, when the timestamp is missing or not numeric
\* the same test with >= in place of >
ExpiredAtTTL(raw, t) == raw.kind = "rec" /\ t - raw.ts >= CACHE_DURATION_MS
Expired(raw, t) == raw.kind = "rec" /\ t - raw.ts > CACHE_DURATION_MS

NoData == [hit |-> FALSE, beta |-> Undefined, n |-> 0]

\* getCachedBeta: the value returned (data) and localStorage afterwards
getCachedBeta(st, src, symbol, market, lb, t) ==
    LET key == CacheKey(src, symbol, market, lb)
        raw == getItem(st, key)
    IN  IF raw.kind = "absent" THEN [data |-> NoData, store |-> st]
        ELSE IF raw.kind \in {"garbage", "null"}
             THEN [data |-> NoData, store |-> st]     \* throws inside try: return null
        ELSE IF Expired(raw, t)
             THEN [data |-> NoData, store |-> removeItem(st, key)]
        ELSE [data |-> [hit |-> TRUE, beta |-> raw.beta, n |-> raw.n], store |-> st]

\* a setCachedBeta that leaves the sample count out of the stored record
setCachedBetaWithoutN(st, src, symbol, market, lb, beta, n, t, quotaOk) ==
    IF quotaOk
    THEN setItem(st, CacheKey(src, symbol, market, lb), StoredRec(JsonNumber(beta), 0, t))
    ELSE st
\* setCachedBeta; quotaOk = FALSE: setItem throws ("Cache full"), which is swallowed
setCachedBeta(st, src, symbol, market, lb, beta, n, t, quotaOk) ==
    IF quotaOk
    THEN setItem(st, CacheKey(src, symbol, market, lb), StoredRec(JsonNumber(beta), n, t))
    ELSE st

----------------------------------------------------------------------------
(* Math *)

Max(a, b) == IF a > b THEN a ELSE b
Min(a, b) == IF a < b THEN a ELSE b

\* arr.slice(-k)
SliceLast(arr, k) ==
    LET start == IF k > 0 THEN Max(Len(arr) - k, 0) ELSE Min(-k, Len(arr))
    IN  SubSeq(arr, start + 1, Len(arr))

\* p1 / p0 - 1, in units of 1/RET_UNIT
Ret(p0, p1) == ((p1 - p0) * RET_UNIT) \div p0

\* v0.1.0 toReturns: a pair is skipped when p0 <= 0
toReturns1(priceRows) ==
    LET I == SelectSeq([i \in 1..(Len(priceRows) - 1) |-> i + 1],
                       LAMBDA i : ~(priceRows[i - 1].close <= 0))
    IN  [j \in 1..Len(I) |->
            [date |-> priceRows[I[j]].date,
             r |-> Ret(priceRows[I[j] - 1].close, priceRows[I[j]].close)]]

\* v0.2.0 toReturns: a pair is kept when p0 > 0 and p1 > 0
toReturns(priceRows) ==
    LET I == SelectSeq([i \in 1..(Len(priceRows) - 1) |-> i + 1],
                       LAMBDA i : priceRows[i - 1].close > 0 /\ priceRows[i].close > 0)
    IN  [j \in 1..Len(I) |->
            [date |-> priceRows[I[j]].date,
             r |-> Ret(priceRows[I[j] - 1].close, priceRows[I[j]].close)]]

\* new Map(mkt.map(x => [x.date, x.r])): the last entry for a date wins
MapOf(mkt) ==
    [d \in {mkt[p].date : p \in 1..Len(mkt)} |->
        mkt[CHOOSE p \in 1..Len(mkt) :
                mkt[p].date = d /\ \A q \in (p + 1)..Len(mkt) : mkt[q].date # d].r]

\* an aligner that pairs the two series by position
alignByPosition(asset, mkt) ==
    [asset |-> [j \in 1..Min(Len(asset), Len(mkt)) |-> asset[j].r],
     mkt |-> [j \in 1..Min(Len(asset), Len(mkt)) |-> mkt[j].r]]
\* alignReturns (both versions)
alignReturns(asset, mkt) ==
    LET mktMap == MapOf(mkt)
        kept == SelectSeq(asset, LAMBDA a : a.date \in DOMAIN mktMap)
    IN  [asset |-> [j \in 1..Len(kept) |-> kept[j].r],
         mkt |-> [j \in 1..Len(kept) |-> mktMap[kept[j].date]]]

\* sum of n*(a[i] - meanA) * n*(b[i] - meanB): the deviations are scaled by n to
\* stay integral
SumDevProd(a, b) ==
    LET n == Len(a)
        sa == SumSeq(a)
        sb == SumSeq(b)
    IN  SumSeq([i \in 1..n |-> (n * a[i] - sa) * (n * b[i] - sb)])

\* v0.2.0 calculateBeta: cov / varM, both sums without the n-1 divisor
calculateBeta(asset, mkt) ==
    LET n == Len(asset)
        cov == SumDevProd(asset, mkt)
        varM == SumDevProd(mkt, mkt)
    IN  IF n < MIN_POINTS THEN NaN
        ELSE IF varM = 0 THEN NaN
        ELSE Num(cov, varM)

\* v0.1.0 variance / covariance: the value scaled by n*n, over n-1; NaN below 2 points
variance(arr) ==
    IF Len(arr) < 2 THEN NaN ELSE Num(SumDevProd(arr, arr), Len(arr) - 1)
covariance(a, b) ==
    IF Len(a) # Len(b) \/ Len(a) < 2 THEN NaN ELSE Num(SumDevProd(a, b), Len(a) - 1)

\* v0.1.0 betaFromReturns
betaFromReturns(assetR, mktR) ==
    LET v == variance(mktR)
        c == covariance(assetR, mktR)
    IN  IF ~NumberIsFinite(v) \/ v.num = 0 THEN NaN
        ELSE IF ~NumberIsFinite(c) THEN NaN
        ELSE LET q == RDiv(AsRat(c), AsRat(v)) IN Num(q.num, q.den)

\* x.toFixed(2) read back by parseFloat: hundredths, ties away from zero
toFixed2(b) ==
    LET q == (2 * 100 * Abs(b.num) + b.den) \div (2 * b.den)
    IN  Rat(IF b.num < 0 THEN -q ELSE q, 100)

----------------------------------------------------------------------------
(* Price sources.  A response is what the parsers look at: whether the status is
   2xx, whether the text has the shape the parser expects, and its data lines
   (CSV) or quotes (JSON), each of one kind:
     "good"        a date and a numeric close
     "nodate"      an empty date cell
     "badclose"    a close that is not a number
     "emptyclose"  an empty close cell: Number("") is 0
     "nullclose"   a null close (Yahoo)
     "zerots"      a timestamp of 0 (Yahoo)
   Dates are the positions of the lines, so the rows come out in date order. *)

Threw == [ok |-> FALSE, rows |-> <<>>]
Returned(h) == [ok |-> TRUE, rows |-> h]
RowOf(data, i) == [date |-> i, close |-> IF data[i] = "emptyclose" THEN 0 ELSE 4]
RowsWhere(data, usable) ==
    LET I == SelectSeq([i \in 1..Len(data) |-> i], LAMBDA i : data[i] \in usable)
    IN  [j \in 1..Len(I) |-> RowOf(data, I[j])]

\* v0.1.0 parseStooqCsv: [] below 3 lines or without a Date or Close column
parseStooqCsv(resp) ==
    IF Len(resp.data) + 1 < 3 THEN <<>>
    ELSE IF ~resp.hasDate \/ ~resp.hasClose THEN <<>>
    ELSE RowsWhere(resp.data, {"good", "emptyclose"})

\* v0.1.0 fetchPrices: gmFetchText rejects a non-2xx status; no rows throws
fetchPrices(resp) ==
    IF ~resp.http THEN Threw
    ELSE IF parseStooqCsv(resp) = <<>> THEN Threw
    ELSE Returned(parseStooqCsv(resp))

\* v0.2.0 fetchPricesStooq: throws below 3 lines; a missing column gives index -1,
\* an undefined cell, and no row
fetchPricesStooq(resp) ==
    IF ~resp.http THEN Threw
    ELSE IF Len(resp.data) + 1 < 3 THEN Threw
    ELSE IF ~resp.hasDate \/ ~resp.hasClose THEN Returned(<<>>)
    ELSE Returned(RowsWhere(resp.data, {"good", "emptyclose"}))

\* v0.2.0 fetchPricesYahoo: throws when JSON.parse does, or without timestamps or
\* quotes
fetchPricesYahoo(resp) ==
    IF ~resp.http THEN Threw
    ELSE IF ~resp.shaped THEN Threw
    ELSE Returned(RowsWhere(resp.data, {"good"}))

----------------------------------------------------------------------------
(* Inputs: what the user types and what the network answers *)

\* lines of the holdings textarea: ticker and weight
Line(t, w) == [t |-> t, w |-> Rat(w, 1)]
Lines == {Line(<<"A">>, 1), Line(<<"B">>, 3), Line(<<>>, 1), Line(<<"A">>, 0)}
RECURSIVE SeqsUpTo(_, _)
SeqsUpTo(S, n) ==
    IF n = 0 THEN {<<>>}
    ELSE SeqsUpTo(S, n - 1) \cup
         {Append(q, x) : q \in {r \in SeqsUpTo(S, n - 1) : Len(r) = n - 1}, x \in S}
TextInputs == SeqsUpTo(Lines, MaxLines)
Sources == {"yahoo", "stooq"}
MarketInput(src) == IF src = "stooq" THEN <<"s","p","y",".","u","s">> ELSE <<"S","P","Y">>
LookbackInputs == {0, DEFAULT_LOOKBACK_DAYS}     \* 0: an empty or non-numeric field

\* price histories: date d carries the close pattern[d], cyclically
Px(pattern, len) ==
    [d \in 1..len |-> [date |-> d, close |-> pattern[((d - 1) % Len(pattern)) + 1]]]
PxMkt == Px(<<4, 8>>, HistLen)
PxAlt == Px(<<4, 8, 8, 4>>, HistLen)
PxConst == Px(<<4>>, HistLen)
PxShort == Px(<<4, 8, 2>>, 3)

\* outcome of gmFetch/gmFetchText plus parsing: rejected (HTTP status, timeout,
\* network error, unparseable body) or the parsed rows
Rejected == [ok |-> FALSE, rows |-> <<>>]
Rows(h) == [ok |-> TRUE, rows |-> h]
MarketOutcomes == {Rejected, Rows(PxMkt), Rows(PxConst), Rows(<<>>)}
HoldingOutcomes == {Rejected, Rows(PxMkt), Rows(PxAlt), Rows(PxShort)}

\* the instants at which the clock is read: a cache entry written at 0 is then
\* fresh, one second old, exactly one TTL old, or older than the TTL
Instants == {0, SLEEP_MS, CACHE_DURATION_MS, CACHE_DURATION_MS + SLEEP_MS}

EmptyStore == [k \in {} |-> AbsentItem]
\* what an earlier batch at time 0 left behind for ticker A, under either source
PriorStore ==
    LET lb == DEFAULT_LOOKBACK_DAYS
        e == StoredRec(Num(3, 2), 2 * MIN_POINTS, 0)
    IN  setItem(setItem(EmptyStore,
                        CacheKey("yahoo", <<"A">>, <<"S","P","Y">>, lb), e),
                CacheKey("stooq", <<"a",".","u","s">>, <<"s","p","y",".","u","s">>, lb), e)
InitStores == {EmptyStore, PriorStore}

NoRets == [set |-> FALSE, rets |-> <<>>]
NoTotal == [shown |-> FALSE, val |-> RZero]
NoPut == [done |-> FALSE, src |-> "", symbol |-> <<>>, market |-> <<>>, lb |-> 0,
          beta |-> NaN, n |-> 0, t |-> 0, ok |-> FALSE]
NoAligned == [asset |-> <<>>, mkt |-> <<>>]
NoResponse == [http |-> FALSE, shaped |-> FALSE, hasDate |-> FALSE, hasClose |-> FALSE,
               data |-> <<>>]
NoCalc == [op |-> "", fn |-> "", a |-> <<>>, m |-> <<>>, beta |-> Undefined,
           al |-> NoAligned, resp |-> NoResponse, res |-> Threw]
NoGet == [done |-> FALSE, src |-> "", symbol |-> <<>>, market |-> <<>>, lb |-> 0,
          raw |-> AbsentItem, data |-> NoData, t |-> 0]

----------------------------------------------------------------------------
(* Pieces of the click handlers *)

\* v0.2.0 lines 876-883: a line is kept when its ticker is non-empty and w > 0
ParseV2(lines) ==
    LET kept == SelectSeq(lines, LAMBDA l : trim(l.t) # <<>> /\ RPos(l.w))
    IN  [j \in 1..Len(kept) |-> [ticker |-> trim(kept[j].t), weight |-> kept[j].w]]

\* v0.1.0 parseHoldings: a line is kept when w > 0; the ticker is not looked at
parseHoldings(lines) ==
    LET kept == SelectSeq(lines, LAMBDA l : RPos(l.w))
    IN  [j \in 1..Len(kept) |-> [ticker |-> trim(kept[j].t), weight |-> kept[j].w]]

RECURSIVE SumWeights(_)
SumWeights(hs) == IF hs = <<>> THEN RZero ELSE RAdd(Head(hs).weight, SumWeights(Tail(hs)))

\* a handler that leaves the weights as typed
WeightsAsTyped(hs) == hs
\* holdings.forEach(h => h.weight /= wSum)
NormalizeWeights(hs) ==
    LET wSum == SumWeights(hs)
    IN  [j \in 1..Len(hs) |->
            [ticker |-> hs[j].ticker, weight |-> RDiv(hs[j].weight, wSum)]]

\* v0.2.0 line 870: parseInt(...) || DEFAULT_LOOKBACK_DAYS
LookbackV2(raw) == IF raw = 0 THEN DEFAULT_LOOKBACK_DAYS ELSE raw
\* v0.1.0 line 343
LookbackV1(raw) ==
    Max(V1_MIN_LOOKBACK,
        Min(V1_MAX_LOOKBACK, IF raw = 0 THEN DEFAULT_LOOKBACK_DAYS ELSE raw))

\* v0.2.0 line 889: holdings.some(h => !getCachedBeta(...)); some() stops at the
\* first miss, and every lookup it makes may evict an expired entry
RECURSIVE NeedsMarket(_, _, _, _, _, _)
NeedsMarket(hs, st, src, market, lb, t) ==
    IF hs = <<>> THEN [needs |-> FALSE, store |-> st, looked |-> 0]
    ELSE LET g == getCachedBeta(st, src, normalizeTicker(Head(hs).ticker, src), market, lb, t)
             rest == NeedsMarket(Tail(hs), g.store, src, market, lb, t)
         IN  IF ~g.data.hit THEN [needs |-> TRUE, store |-> g.store, looked |-> 1]
             ELSE [needs |-> rest.needs, store |-> rest.store, looked |-> rest.looked + 1]

\* v0.2.0 line 907: if (i > 1) await sleep(1000)
SleepBeforeFetch(i) == i > 1

\* results.sort((a, b) => b.weight - a.weight): stable, descending by weight
RGreater(x, y) == x.num * y.den > y.num * x.den
RECURSIVE InsertByWeight(_, _)
InsertByWeight(sorted, r) ==
    IF sorted = <<>> THEN <<r>>
    ELSE IF RGreater(r.weight, Head(sorted).weight) THEN <<r>> \o sorted
    ELSE <<Head(sorted)>> \o InsertByWeight(Tail(sorted), r)
RECURSIVE SortByWeight(_)
SortByWeight(rs) ==
    IF rs = <<>> THEN <<>>
    ELSE InsertByWeight(SortByWeight(SubSeq(rs, 1, Len(rs) - 1)), rs[Len(rs)])

RECURSIVE RSum(_)
RSum(s) == IF s = <<>> THEN RZero ELSE RAdd(Head(s), RSum(Tail(s)))

\* v0.1.0 lines 389-392: s + r.weight * (Number.isFinite(r.beta) ? r.beta : 0)
PortfolioBetaV1(rs) ==
    RSum([j \in 1..Len(rs) |->
            IF NumberIsFinite(rs[j].beta) THEN RMul(rs[j].weight, AsRat(rs[j].beta))
            ELSE RZero])

\* v0.2.0 renderTable: the beta input holds isNaN(beta) ? '' : beta.toFixed(2)
\* (null.toFixed throws); recalc sums w * b over the rows whose input parses
InputValue(r) ==
    IF isNaN(r.beta) THEN [filled |-> FALSE, b |-> RZero]
    ELSE [filled |-> TRUE, b |-> toFixed2(r.beta)]
RenderThrows(rs) == \E j \in 1..Len(rs) : rs[j].beta.k = "null"
\* wTotal > 0 ? sum.toFixed(3) : "-"
TotalShown(wTotal) == RPos(wTotal)
Recalc(rs) ==
    LET filled == SelectSeq(rs, LAMBDA r : InputValue(r).filled)
        sum == RSum([j \in 1..Len(filled) |->
                        RMul(filled[j].weight, InputValue(filled[j]).b)])
        wTotal == RSum([j \in 1..Len(filled) |-> filled[j].weight])
    IN  [shown |-> TotalShown(wTotal), val |-> IF TotalShown(wTotal) THEN sum ELSE RZero]

\* a result record that loses the cached mark
ResultNotMarked(h, sym, beta, n, cached, error) ==
    [ticker |-> h.ticker, sym |-> sym, weight |-> h.weight, beta |-> beta, n |-> n,
     cached |-> FALSE, error |-> error]
Result(h, sym, beta, n, cached, error) ==
    [ticker |-> h.ticker, sym |-> sym, weight |-> h.weight, beta |-> beta, n |-> n,
     cached |-> cached, error |-> error]

----------------------------------------------------------------------------
(* One batch *)

\* the page has loaded one of the two scripts; v0.1.0 has no cache, and the model
\* leaves localStorage empty under it
Init ==
    /\ ver \in {"v1", "v2"} /\ pc = "idle" /\ now = 0
    /\ store \in (IF ver = "v1" THEN {EmptyStore} ELSE InitStores)
    /\ source = "" /\ marketSym = <<>> /\ lookback = 0
    /\ holdings = <<>> /\ idx = 0
    /\ marketRets = NoRets /\ rows = <<>>
    /\ results = <<>> /\ total = NoTotal /\ err = ""
    /\ fetchLog = <<>> /\ slept = FALSE /\ inflight = 0 /\ setCalls = 0
    /\ lastPut = NoPut /\ got = NoGet /\ calls = 0 /\ lookups = <<>>
    /\ calc = NoCalc

\* a getCachedBeta call for holding i, made when done holdings had their result;
\* scan: made by needsMarket, before the loop
Lookup(i, done, scan) == [idx |-> i, done |-> done, scan |-> scan]

\* a handler that asks for the market series again on every fetch
FetchMarketAgain(what, i, afterSleep) ==
    [what |-> "market", idx |-> i, afterSleep |-> afterSleep]
Fetch(what, i, afterSleep) == [what |-> what, idx |-> i, afterSleep |-> afterSleep]

\* a GM_xmlhttpRequest is issued
Issue(what, i, afterSleep) ==
    /\ fetchLog' = Append(fetchLog, Fetch(what, i, afterSleep))
    /\ slept' = FALSE
    /\ inflight' = inflight + 1

\* v0.2.0 lines 885-895: what the handler does after parsing: nothing more when no
\* holding was parsed (throw), the market fetch when some holding misses the cache,
\* otherwise straight into the loop
\* a handler without the "No holdings." check
AfterParseUnchecked(parsed, needs) ==
    IF needs \/ parsed = <<>> THEN "v2_market" ELSE "v2_loop"
AfterParseV2(parsed, needs) ==
    IF parsed = <<>> THEN "error" ELSE IF needs THEN "v2_market" ELSE "v2_loop"

\* v0.1.0 lines 346-361
AfterParseV1(parsed) ==
    IF parsed = <<>> THEN "error"
    ELSE IF ~RPos(SumWeights(parsed)) THEN "error"
    ELSE "v1_market"

\* a handler that issues the holding's fetch and goes on without awaiting it
FetchNotAwaited == "v2_loop"
\* v0.2.0 line 908: the handler awaits the holding's fetch
AwaitHoldingFetch == "v2_fetch"

\* v0.2.0: the end of the loop, renderTable(results) and recalc()
V2Finish(rs) ==
    IF RenderThrows(rs)
    THEN [pc |-> "error", results |-> SortByWeight(rs), total |-> NoTotal,
          err |-> "TypeError"]
    ELSE [pc |-> "done", results |-> SortByWeight(rs), total |-> Recalc(rs), err |-> ""]

\* v0.2.0 click handler, lines 866-895: up to the market fetch, or up to the loop
V2Click(src, lbRaw, lines) ==
    /\ pc = "idle" /\ ver = "v2"
    /\ LET market == normalizeTicker(MarketInput(src), src)
           lb == LookbackV2(lbRaw)
           parsed == ParseV2(lines)
           hs == NormalizeWeights(parsed)
           pre == NeedsMarket(hs, store, src, market, lb, now)
           next == AfterParseV2(parsed, parsed # <<>> /\ pre.needs)
       IN  /\ ver' = ver /\ source' = src /\ marketSym' = market /\ lookback' = lb
           /\ pc' = next
           /\ err' = IF next = "error" THEN "No holdings." ELSE ""
           /\ holdings' = IF parsed = <<>> THEN <<>> ELSE hs
           /\ store' = IF parsed = <<>> THEN store ELSE pre.store
           /\ lookups' = IF parsed = <<>> THEN <<>>
                         ELSE [j \in 1..pre.looked |-> Lookup(j, 0, TRUE)]
           /\ IF next = "v2_market"
              THEN Issue("market", 0, slept)
              ELSE UNCHANGED <<fetchLog, slept, inflight>>
    /\ UNCHANGED <<now, idx, marketRets, rows, results, total, setCalls, lastPut, got,
                   calls, calc>>

\* v0.2.0 lines 893-894: the market fetch settles
V2MarketResp(out) ==
    /\ pc = "v2_market"
    /\ inflight' = inflight - 1
    /\ IF out.ok
       THEN /\ marketRets' = [set |-> TRUE,
                              rets |-> toReturns(SliceLast(out.rows, lookback + V2_CUSHION))]
            /\ pc' = "v2_loop" /\ err' = err
       ELSE /\ pc' = "error" /\ err' = "market fetch" /\ marketRets' = marketRets
    /\ UNCHANGED <<ver, now, store, source, marketSym, lookback, holdings, idx, rows,
                   results, total, fetchLog, slept, setCalls, lastPut, got, calls, lookups, calc>>

\* v0.2.0 lines 899-907: the next holding, up to its cache hit, sleep or fetch
V2LoopStep ==
    /\ pc = "v2_loop" /\ idx < Len(holdings)
    /\ LET i == idx + 1
           h == holdings[i]
           sym == normalizeTicker(h.ticker, source)
           g == getCachedBeta(store, source, sym, marketSym, lookback, now)
           rs == Append(results, Result(h, sym, g.data.beta, g.data.n, TRUE, FALSE))
           fin == V2Finish(rs)
       IN  /\ idx' = i
           /\ store' = g.store
           /\ lookups' = Append(lookups, Lookup(i, Len(results), FALSE))
           /\ IF g.data.hit
              THEN /\ IF i = Len(holdings)
                      THEN /\ pc' = fin.pc /\ results' = fin.results
                           /\ total' = fin.total /\ err' = fin.err
                      ELSE /\ pc' = "v2_loop" /\ results' = rs
                           /\ UNCHANGED <<total, err>>
                   /\ UNCHANGED <<fetchLog, slept, inflight>>
              ELSE /\ UNCHANGED <<results, total, err>>
                   /\ IF SleepBeforeFetch(i)
                      THEN /\ pc' = "v2_sleep"
                           /\ UNCHANGED <<fetchLog, slept, inflight>>
                      ELSE /\ pc' = AwaitHoldingFetch
                           /\ Issue("holding", i, slept)
    /\ UNCHANGED <<ver, now, source, marketSym, lookback, holdings, marketRets, rows,
                   setCalls, lastPut, got, calls, calc>>

\* v0.2.0 lines 907-908: sleep(1000) resolves and the holding's fetch is issued
V2SleepDone ==
    /\ pc = "v2_sleep"
    /\ pc' = AwaitHoldingFetch
    /\ Issue("holding", idx, TRUE)
    /\ UNCHANGED <<ver, now, store, source, marketSym, lookback, holdings, idx,
                   marketRets, rows, results, total, err, setCalls, lastPut, got, calls, lookups, calc>>

\* a handler that caches whatever was computed
CacheWhatever(threw, beta) == ~threw
\* v0.2.0 line 912: if (!isNaN(beta)) setCachedBeta(...), reached when nothing threw
ShouldCache(threw, beta) == ~threw /\ ~isNaN(beta)

\* v0.2.0 lines 908-916: the holding's fetch settles; beta, cache write, result
V2FetchResp(out, quotaOk) ==
    /\ pc = "v2_fetch"
    /\ inflight' = inflight - 1
    /\ LET h == holdings[idx]
           sym == normalizeTicker(h.ticker, source)
           threw == ~out.ok \/ ~marketRets.set     \* reject, or null.map in alignReturns
           assetRets == toReturns(SliceLast(out.rows, lookback + V2_CUSHION))
           al == alignReturns(assetRets, marketRets.rets)
           beta == calculateBeta(al.asset, al.mkt)
           n == Len(al.asset)
           put == ShouldCache(threw, beta)
           r == IF threw THEN Result(h, sym, NaN, 0, FALSE, TRUE)
                ELSE Result(h, sym, beta, n, FALSE, FALSE)
           rs == Append(results, r)
           fin == V2Finish(rs)
       IN  /\ put \/ quotaOk
           /\ IF put
              THEN /\ store' = setCachedBeta(store, source, sym, marketSym, lookback,
                                             beta, n, now, quotaOk)
                   /\ setCalls' = setCalls + 1
              ELSE UNCHANGED <<store, setCalls>>
           /\ IF idx = Len(holdings)
              THEN /\ pc' = fin.pc /\ results' = fin.results
                   /\ total' = fin.total /\ err' = fin.err
              ELSE /\ pc' = "v2_loop" /\ results' = rs /\ UNCHANGED <<total, err>>
    /\ UNCHANGED <<ver, now, source, marketSym, lookback, holdings, idx, marketRets,
                   rows, fetchLog, slept, lastPut, got, calls, lookups, calc>>

\* v0.1.0: the holdings after position i that the loop does not skip (line 368)
NextV1(hs, i) ==
    LET S == {j \in (i + 1)..Len(hs) : normalizeToStooqSymbol(hs[j].ticker) # <<>>}
    IN  IF S = {} THEN 0 ELSE CHOOSE j \in S : \A q \in S : j <= q

\* v0.1.0 click handler, lines 337-361: up to the market fetch
V1Click(lbRaw, lines) ==
    /\ pc = "idle" /\ ver = "v1"
    /\ LET market == normalizeToStooqSymbol(MarketInput("stooq"))
           parsed == parseHoldings(lines)
           next == AfterParseV1(parsed)
       IN  /\ ver' = ver /\ source' = "stooq" /\ marketSym' = market
           /\ lookback' = LookbackV1(lbRaw)
           /\ pc' = next
           /\ err' = IF parsed = <<>> THEN "No holdings parsed."
                     ELSE IF next = "error" THEN "Weights sum to 0." ELSE ""
           /\ holdings' = IF next = "error" THEN parsed ELSE NormalizeWeights(parsed)
           /\ IF next = "v1_market"
              THEN Issue("market", 0, slept)
              ELSE UNCHANGED <<fetchLog, slept, inflight>>
    /\ UNCHANGED <<now, store, idx, marketRets, rows, results, total, setCalls,
                   lastPut, got, calls, lookups, calc>>

\* v0.1.0 fetchPrices, lines 448-453: gmFetchText settles; no rows throws,
\* otherwise fetchPrices sleeps before it returns
V1FetchResp(out) ==
    /\ pc \in {"v1_market", "v1_fetch"}
    /\ inflight' = inflight - 1
    /\ IF out.ok /\ out.rows # <<>>
       THEN /\ rows' = out.rows
            /\ pc' = IF pc = "v1_market" THEN "v1_market_sleep" ELSE "v1_sleep"
            /\ err' = err
       ELSE /\ pc' = "error" /\ err' = "fetch" /\ rows' = rows
    /\ UNCHANGED <<ver, now, store, source, marketSym, lookback, holdings, idx,
                   marketRets, results, total, fetchLog, slept, setCalls, lastPut, got, calls, lookups, calc>>

\* v0.1.0: after fetchPrices returns, the loop runs to its next fetch or to its end
V1Continue(rs, i) ==
    LET j == NextV1(holdings, i)
    IN  IF j = 0
        THEN /\ pc' = "done"
             /\ results' = SortByWeight(rs)
             /\ total' = [shown |-> TRUE, val |-> PortfolioBetaV1(rs)]
             /\ idx' = Len(holdings)
             /\ fetchLog' = fetchLog /\ slept' = TRUE /\ inflight' = inflight
        ELSE /\ pc' = "v1_fetch"
             /\ results' = rs
             /\ total' = total
             /\ idx' = j
             /\ Issue("holding", j, TRUE)

\* v0.1.0 lines 453, 361-363: the sleep after the market fetch ends
V1MarketSleepDone ==
    /\ pc = "v1_market_sleep"
    /\ marketRets' = [set |-> TRUE,
                      rets |-> toReturns1(SliceLast(rows, lookback + V1_CUSHION))]
    /\ rows' = <<>>
    /\ V1Continue(results, 0)
    /\ UNCHANGED <<ver, now, store, source, marketSym, lookback, holdings, err,
                   setCalls, lastPut, got, calls, lookups, calc>>

\* v0.1.0 lines 453, 372-385: the sleep after a holding's fetch ends
V1SleepDone ==
    /\ pc = "v1_sleep"
    /\ LET h == holdings[idx]
           sym == normalizeToStooqSymbol(h.ticker)
           assetRets == toReturns1(SliceLast(rows, lookback + V1_CUSHION))
           al == alignReturns(assetRets, marketRets.rets)
           beta == betaFromReturns(al.asset, al.mkt)
           n == Min(Len(al.asset), Len(al.mkt))
       IN  V1Continue(Append(results, Result(h, sym, beta, n, FALSE, FALSE)), idx)
    /\ rows' = <<>>
    /\ UNCHANGED <<ver, now, store, source, marketSym, lookback, holdings, marketRets,
                   err, setCalls, lastPut, got, calls, lookups, calc>>

\* the wall clock advances.  Only v0.2.0 reads it, in getCachedBeta and
\* setCachedBeta; the time that passes while the handler is suspended is taken
\* before the next cache lookup (pc = "v2_loop"), or before the click
Tick(t) ==
    /\ ver = "v2"
    /\ pc \in {"idle", "v2_loop", "cache"}
    /\ t > now
    /\ now' = t
    /\ UNCHANGED <<ver, pc, store, source, marketSym, lookback, holdings, idx,
                   marketRets, rows, results, total, err, fetchLog, slept, inflight,
                   setCalls, lastPut, got, calls, lookups, calc>>

Next ==
    \/ \E src \in Sources, lb \in LookbackInputs, lines \in TextInputs :
          V2Click(src, lb, lines)
    \/ \E out \in MarketOutcomes : V2MarketResp(out)
    \/ V2LoopStep
    \/ V2SleepDone
    \/ \E out \in HoldingOutcomes, quotaOk \in BOOLEAN : V2FetchResp(out, quotaOk)
    \/ \E lb \in LookbackInputs, lines \in TextInputs : V1Click(lb, lines)
    \/ \E out \in MarketOutcomes \cup HoldingOutcomes : V1FetchResp(out)
    \/ V1MarketSleepDone
    \/ V1SleepDone
    \/ \E t \in Instants : Tick(t)

Spec == Init /\ [][Next]_vars

----------------------------------------------------------------------------
(* Claims about a batch *)

HoldingSkipped(h) == ver = "v1" /\ normalizeToStooqSymbol(h.ticker) = <<>>
Entry(x) == [ticker |-> x.ticker, weight |-> x.weight]
Entries(s) == [j \in 1..Len(s) |-> Entry(s[j])]
Count(s, x) == Cardinality({j \in 1..Len(s) : s[j] = x})
HoldingFetchPending == pc \in {"v1_fetch", "v2_fetch"}
HoldingFetchSettles(out) ==
    V1FetchResp(out) \/ \E quotaOk \in BOOLEAN : V2FetchResp(out, quotaOk)
RecordedAsFailed(rs, h) ==
    \E j \in 1..Len(rs) :
        Entry(rs[j]) = Entry(h) /\ isNaN(rs[j].beta) /\ rs[j].n = 0 /\ rs[j].error

\* C1: whenever the price fetch of a holding fails, the batch does not abort: the
\* holding gets a result entry with undefined beta, sample count 0 and the failed
\* mark, and the handler goes on to the holdings after it.
C1_HoldingFailureIsRecorded ==
    [][\A out \in HoldingOutcomes :
          (HoldingFetchPending /\ ~out.ok /\ HoldingFetchSettles(out))
              => /\ pc' # "error"
                 /\ Len(results') = Len(results) + 1
                 /\ RecordedAsFailed(results', holdings[idx])]_vars

\* C5: every fetch of a batch but the first is issued after a sleep that completed
\* since the fetch before it ended.
C5_SleepBeforeEveryLaterFetch ==
    \A j \in 2..Len(fetchLog) : fetchLog[j].afterSleep

\* the result entries so far are those of the first k holdings, in input order
ResultsCover(k) ==
    Entries(results) =
        Entries(SelectSeq(SubSeq(holdings, 1, k), LAMBDA h : ~HoldingSkipped(h)))

\* C6 as claimed: at most one price fetch is in flight at any moment, and nothing
\* is done for a holding, its cache lookup included, before every holding ahead of
\* it in the input has its result entry.
C6_Claimed ==
    /\ inflight <= 1
    /\ \A j \in 1..Len(lookups) : lookups[j].done = lookups[j].idx - 1

\* C6: at most one price fetch is in flight at any moment, and the loop takes the
\* holdings one at a time in input order: its cache lookup, fetch and cache write
\* for holding idx are made when holdings 1..idx-1 have their result entries, and no
\* fetch is issued for a later holding.  The only cache lookups made ahead of that
\* order are those of needsMarket, before the loop and before any fetch: one per
\* holding, in input order, up to the first miss.
C6_StrictlySequential ==
    /\ inflight <= 1
    /\ (inflight = 1) = (pc \in {"v1_market", "v2_market", "v1_fetch", "v2_fetch"})
    /\ pc \in {"v2_sleep", "v2_fetch", "v1_fetch", "v1_sleep"} => ResultsCover(idx - 1)
    /\ pc = "v2_loop" => ResultsCover(idx)
    /\ \A j \in 1..Len(fetchLog) :
          /\ fetchLog[j].idx <= idx
          /\ \A q \in 1..(j - 1) : fetchLog[q].idx < fetchLog[j].idx
    /\ \A j \in 1..Len(lookups) :
          IF lookups[j].scan
          THEN /\ lookups[j].idx = j /\ lookups[j].done = 0
               /\ \A q \in 1..(j - 1) : lookups[q].scan
          ELSE /\ lookups[j].done = lookups[j].idx - 1
               /\ lookups[j].idx <= idx
               /\ \A q \in 1..(j - 1) :
                     lookups[q].scan \/ lookups[q].idx < lookups[j].idx

C6_SecondHoldingInFlight ==
    /\ pc = "v2_fetch" /\ idx = 2 /\ inflight = 1
    /\ Len(results) = 1 /\ results[1].cached
    /\ Len(lookups) = 4 /\ lookups[2] = Lookup(2, 0, TRUE)

\* C7: the market series is fetched at most once in a batch, as the first fetch;
\* no holding fetch is issued while it is pending; and the market return series,
\* once built, is never changed.
C7_MarketFetchedOnce ==
    /\ [](/\ \A j \in 1..Len(fetchLog) : fetchLog[j].what = "market" => j = 1
          /\ pc \in {"v1_market", "v2_market", "v1_market_sleep"} => Len(fetchLog) = 1
          /\ (Len(fetchLog) > 1 /\ fetchLog[1].what = "market") => marketRets.set)
    /\ [][marketRets.set => marketRets' = marketRets]_vars

C7_TwoHoldingsAfterMarket ==
    /\ pc = "done" /\ Len(fetchLog) = 3 /\ fetchLog[1].what = "market"
    /\ marketRets.set /\ marketRets.rets # <<>>
    /\ \A j \in 1..Len(results) : NumberIsFinite(results[j].beta)

\* the claimed portfolio beta: sum of weight * (beta if defined, else 0)
WeightedBetaSum(rs) ==
    RSum([j \in 1..Len(rs) |->
            IF rs[j].beta.k = "num" THEN RMul(rs[j].weight, AsRat(rs[j].beta)) ELSE RZero])

\* C8: a completed batch reports a portfolio beta, and it is the sum over the
\* holdings of normalized weight times beta, an undefined beta counting as 0 (so
\* the report is 0 when every beta is undefined).
C8_PortfolioBetaIsWeightedSum ==
    pc = "done" => total.shown /\ total.val = WeightedBetaSum(results)

\* C9: a batch that completes has exactly one result entry for each holding whose
\* weight entered the normalization sum: none missing, none twice.
C9_OneEntryPerHolding ==
    pc = "done" =>
        /\ Len(results) = Len(holdings)
        /\ \A j \in 1..Len(holdings) :
              Count(Entries(results), Entry(holdings[j])) =
                  Count(Entries(holdings), Entry(holdings[j]))

\* C10: a click from which no holding is parsed ends in an explicit error, with no
\* fetch issued or in flight and no cache write made.
C10_NoHoldingsNoFetch ==
    (pc # "idle" /\ holdings = <<>>) =>
        /\ pc = "error" /\ err # ""
        /\ fetchLog = <<>> /\ inflight = 0 /\ setCalls = 0
        /\ results = <<>> /\ ~total.shown

C10_NoHoldingsError ==
    pc = "error" /\ holdings = <<>> /\ err \in {"No holdings.", "No holdings parsed."}

\* the click was made with these lines in the textarea
ClickedWith(lines) ==
    \/ \E src \in Sources, lb \in LookbackInputs : V2Click(src, lb, lines)
    \/ \E lb \in LookbackInputs : V1Click(lb, lines)
RawHoldings(lines) == IF ver = "v1" THEN parseHoldings(lines) ELSE ParseV2(lines)
BatchRunning == pc \notin {"idle", "error", "cache", "fn"}

\* C11: in a batch that got past the checks, every weight is the holding's raw
\* weight divided by the sum of all raw weights (so weight * sum = raw weight), lies
\* in (0, 1], the weights sum to 1, and they do not change while the batch runs.
\* Numbers are exact here: rounding of the divisions is not part of the statement.
C11_WeightsNormalized ==
    /\ [](BatchRunning =>
            /\ holdings # <<>>
            /\ \A j \in 1..Len(holdings) :
                  holdings[j].weight.num > 0
                      /\ holdings[j].weight.num <= holdings[j].weight.den
            /\ SumWeights(holdings) = Rat(1, 1))
    /\ [][\A lines \in TextInputs :
             (pc = "idle" /\ BatchRunning' /\ ClickedWith(lines)) =>
                 LET raw == RawHoldings(lines)
                 IN  /\ Len(holdings') = Len(raw)
                     /\ \A j \in 1..Len(raw) :
                           /\ holdings'[j].ticker = raw[j].ticker
                           /\ RMul(holdings'[j].weight, SumWeights(raw)) = raw[j].weight]_vars
    /\ [][pc # "idle" => holdings' = holdings]_vars

C11_QuarterAndThreeQuarters ==
    /\ pc = "done" /\ Len(holdings) = 2
    /\ holdings[1].weight = Rat(1, 4) /\ holdings[2].weight = Rat(3, 4)

\* the market returns of the batch are all the same: zero variance on any dates
ConstantMarket ==
    /\ marketRets.set /\ marketRets.rets # <<>>
    /\ \A j \in 1..Len(marketRets.rets) : marketRets.rets[j].r = marketRets.rets[1].r

\* C14: when the market returns have zero variance, every holding computed in the
\* batch has an undefined beta and is recorded as failed; it adds nothing to the
\* portfolio sum, and the zero variance does not end the batch in an error.
C14_ZeroVarianceIsFailed ==
    ConstantMarket =>
        /\ \A j \in 1..Len(results) :
              ~results[j].cached => isNaN(results[j].beta) /\ results[j].error
        /\ (pc = "done" /\ \A j \in 1..Len(results) : ~results[j].cached) =>
              (total.shown => total.val = RZero)
        /\ pc = "error" => err = "fetch"

\* the cache key of the holding the loop is at
KeyOfHolding ==
    CacheKey(source,
             IF ver = "v1" THEN normalizeToStooqSymbol(holdings[idx].ticker)
             ELSE normalizeTicker(holdings[idx].ticker, source),
             marketSym, lookback)
\* the fetch of the holding settled and its beta was computed without exception
ComputedV2(out, quotaOk) == V2FetchResp(out, quotaOk) /\ out.ok /\ marketRets.set
ThrewV2(out, quotaOk) == V2FetchResp(out, quotaOk) /\ ~(out.ok /\ marketRets.set)
\* the entry now recorded for the holding the loop is at
ComputedEntry(rs, r) ==
    /\ \E j \in 1..Len(rs) : rs[j] = r
    /\ Entry(r) = Entry(holdings[idx]) /\ ~r.cached /\ ~r.error

\* C16 as claimed: whenever a holding's beta has been computed without exception,
\* a record for it, stamped with the current time, is in the cache under the
\* holding's key when the holding gets its result, whatever the beta.
C16_Claimed ==
    [][((\E out \in HoldingOutcomes, quotaOk \in BOOLEAN : ComputedV2(out, quotaOk))
            \/ V1SleepDone)
          => /\ getItem(store', KeyOfHolding).kind = "rec"
             /\ getItem(store', KeyOfHolding).ts = now]_vars

\* C16: in the script that has a cache (v0.2.0), when a holding's fetch settles and
\* its beta is computed without exception, the holding gets a result that is neither
\* cached nor failed, and in the same step: if the beta is a number, setCachedBeta
\* is called once, and unless localStorage refuses the write the record (beta, n,
\* now) is under the key (source, normalized symbol, market symbol, lookback); if
\* the beta is NaN, nothing is written.  When the fetch or the computation throws,
\* nothing is written.  The v0.1.0 script never writes.
C16_DefinedBetaIsCached ==
    /\ [][\A out \in HoldingOutcomes, quotaOk \in BOOLEAN :
             /\ ComputedV2(out, quotaOk) =>
                   \E r \in {results'[j] : j \in 1..Len(results')} :
                       /\ ComputedEntry(results', r)
                       /\ IF isNaN(r.beta)
                          THEN store' = store /\ setCalls' = setCalls
                          ELSE /\ setCalls' = setCalls + 1
                               /\ IF quotaOk
                                  THEN store' = setItem(store, KeyOfHolding,
                                                        StoredRec(r.beta, r.n, now))
                                  ELSE store' = store
             /\ ThrewV2(out, quotaOk) => store' = store /\ setCalls' = setCalls]_vars
    /\ [](ver = "v1" => store = EmptyStore /\ setCalls = 0)

C16_ComputedAndStored ==
    /\ pc = "done" /\ ver = "v2" /\ setCalls = 1 /\ Len(results) = 1
    /\ ~results[1].cached /\ NumberIsFinite(results[1].beta)
    /\ getItem(store, CacheKey(source, results[1].sym, marketSym, lookback)) =
           StoredRec(results[1].beta, results[1].n, now)

\* what the loop's lookup for the next holding returns
NextLookup ==
    getCachedBeta(store, source, normalizeTicker(holdings[idx + 1].ticker, source),
                  marketSym, lookback, now).data
NextStored ==
    getItem(store, CacheKey(source, normalizeTicker(holdings[idx + 1].ticker, source),
                            marketSym, lookback))

\* C17: when the loop's lookup for a holding returns an entry, the holding gets, in
\* that step, a result with the stored beta and sample count and the cached mark;
\* no fetch is issued, no sleep is started, setCachedBeta is not called and the
\* cache is left as it was.
C17_CacheHitServedFromCache ==
    [][(V2LoopStep /\ NextLookup.hit) =>
          /\ Len(results') = Len(results) + 1
          /\ \E j \in 1..Len(results') :
                /\ Entry(results'[j]) = Entry(holdings[idx + 1])
                /\ results'[j].cached /\ ~results'[j].error
                /\ results'[j].beta = NextStored.beta /\ results'[j].n = NextStored.n
          /\ fetchLog' = fetchLog /\ inflight' = inflight
          /\ pc' \notin {"v2_sleep", "v2_fetch"}
          /\ setCalls' = setCalls /\ store' = store]_vars

C17_AllServedFromCache ==
    /\ pc = "done" /\ Len(results) = 2 /\ fetchLog = <<>> /\ setCalls = 0
    /\ \A j \in 1..2 : results[j].cached /\ results[j].beta = Num(3, 2)
                          /\ results[j].n = 2 * MIN_POINTS

\* the batch ended because the market fetch failed
EndedByMarketFetch ==
    pc = "error" /\ Len(fetchLog) = 1 /\ fetchLog[1].what = "market"

\* C19: a batch that got past the checks runs until the loop has gone through all
\* the holdings: while it runs it waits for a fetch or a sleep, or has a holding
\* left to take; it is done only after the last holding; and the only error that
\* ends it is a failed market fetch, never a failed holding fetch.
C19_BatchRunsToItsEnd ==
    /\ pc = "v2_loop" => idx < Len(holdings)
    /\ pc \in {"v2_market", "v1_market", "v2_fetch", "v1_fetch"} => inflight = 1
    /\ pc = "done" => idx = Len(holdings)
    /\ (pc = "error" /\ holdings # <<>>) => EndedByMarketFetch

\* C20: in v0.2.0, whenever the fetch of a holding that missed the cache in the loop
\* answers with prices, so that the holding reaches alignReturns, the market return
\* series of the batch has been set (is not null), also when the entry the
\* needsMarket scan found valid has expired by the time of the loop's own lookup.
C20_MarketAvailableOnMiss ==
    [][\A out \in HoldingOutcomes, quotaOk \in BOOLEAN :
          (V2FetchResp(out, quotaOk) /\ out.ok) => marketRets.set]_vars

\* the keys whose entry a lookup at time t can still return
Unexpired(st, t) == {k \in DOMAIN st : ~Expired(st[k], t)}
\* the result now recorded as failed for the holding the loop is at
FailedEntry(rs, r) ==
    /\ \E j \in 1..Len(rs) : rs[j] = r
    /\ Entry(r) = Entry(holdings[idx]) /\ ~r.cached /\ r.error

----------------------------------------------------------------------------
(* The cache functions on their own *)

CacheSymbols == {<<"A">>, <<"B">>}
CacheBetas == {Num(1, 1), Num(3, 2), NaN}
CacheMarket == <<"S","P","Y">>
MalformedKinds == {"garbage", "null", "nots", "badts"}

CacheInit ==
    /\ ver = "v2" /\ pc = "cache" /\ now = 0
    /\ store = EmptyStore
    /\ source = "yahoo" /\ marketSym = CacheMarket /\ lookback = DEFAULT_LOOKBACK_DAYS
    /\ holdings = <<>> /\ idx = 0
    /\ marketRets = NoRets /\ rows = <<>>
    /\ results = <<>> /\ total = NoTotal /\ err = ""
    /\ fetchLog = <<>> /\ slept = FALSE /\ inflight = 0 /\ setCalls = 0
    /\ lastPut = NoPut /\ got = NoGet /\ calls = 0 /\ lookups = <<>>
    /\ calc = NoCalc

SameKey(a, symbol) ==
    a.src = source /\ a.symbol = symbol /\ a.market = marketSym /\ a.lb = lookback

\* setCachedBeta(source, symbol, marketSym, lookback, beta, n)
CachePut(symbol, beta, n, quotaOk) ==
    /\ pc = "cache" /\ calls < MaxCalls
    /\ calls' = calls + 1
    /\ store' = setCachedBeta(store, source, symbol, marketSym, lookback, beta, n, now,
                              quotaOk)
    /\ lastPut' = [done |-> TRUE, src |-> source, symbol |-> symbol, market |-> marketSym,
                   lb |-> lookback, beta |-> beta, n |-> n, t |-> now, ok |-> quotaOk]
    /\ got' = NoGet
    /\ UNCHANGED <<ver, pc, now, source, marketSym, lookback, holdings, idx, marketRets,
                   rows, results, total, err, fetchLog, slept, inflight, setCalls,
                   lookups, calc>>

\* getCachedBeta(source, symbol, marketSym, lookback)
CacheGet(symbol) ==
    /\ pc = "cache" /\ calls < MaxCalls
    /\ calls' = calls + 1
    /\ LET g == getCachedBeta(store, source, symbol, marketSym, lookback, now)
       IN  /\ store' = g.store
           /\ got' = [done |-> TRUE, src |-> source, symbol |-> symbol,
                      market |-> marketSym, lb |-> lookback,
                      raw |-> getItem(store, CacheKey(source, symbol, marketSym, lookback)),
                      data |-> g.data, t |-> now]
    /\ UNCHANGED <<ver, pc, now, source, marketSym, lookback, holdings, idx, marketRets,
                   rows, results, total, err, fetchLog, slept, inflight, setCalls,
                   lastPut, lookups, calc>>

\* something else (another script of the origin, an older version, the user) leaves
\* a value under a cache key
CacheForeign(symbol, kind) ==
    /\ pc = "cache" /\ calls < MaxCalls
    /\ calls' = calls + 1
    /\ store' = setItem(store, CacheKey(source, symbol, marketSym, lookback),
                        Malformed(kind, Num(3, 2), 2 * MIN_POINTS))
    /\ lastPut' = IF SameKey(lastPut, symbol) THEN NoPut ELSE lastPut
    /\ got' = NoGet
    /\ UNCHANGED <<ver, pc, now, source, marketSym, lookback, holdings, idx, marketRets,
                   rows, results, total, err, fetchLog, slept, inflight, setCalls,
                   lookups, calc>>

CacheNext ==
    \/ \E symbol \in CacheSymbols, beta \in CacheBetas, quotaOk \in BOOLEAN :
          CachePut(symbol, beta, 2 * MIN_POINTS, quotaOk)
    \/ \E symbol \in CacheSymbols : CacheGet(symbol)
    \/ \E symbol \in CacheSymbols, kind \in MalformedKinds : CacheForeign(symbol, kind)
    \/ \E t \in Instants : Tick(t)

SpecCache == CacheInit /\ [][CacheNext]_vars

----------------------------------------------------------------------------
(* Claims about the cache *)

Age(g) == g.t - g.raw.ts
ReturnsStored(g) == g.data.hit /\ g.data.beta = g.raw.beta /\ g.data.n = g.raw.n

\* C2 as claimed: a lookup returns the stored record if and only if one is stored
\* and it is less than CACHE_DURATION_MS old; at exactly that age it is absent.
C2_Claimed ==
    (got.done /\ got.raw.kind \in {"rec", "absent"}) =>
        /\ got.data.hit = (got.raw.kind = "rec" /\ Age(got) < CACHE_DURATION_MS)
        /\ got.data.hit => ReturnsStored(got)

\* C2: a lookup returns the stored record if and only if a record is stored under
\* the key and it is not more than CACHE_DURATION_MS old (at exactly that age it is
\* still returned), a record without a numeric timestamp counting as never too old;
\* what is returned is the stored beta and sample count.
C2_ValidThroughTTL ==
    got.done =>
        /\ got.data.hit = \/ got.raw.kind = "rec" /\ Age(got) <= CACHE_DURATION_MS
                          \/ got.raw.kind \in {"nots", "badts"}
        /\ got.data.hit => ReturnsStored(got)

C2_HitAtExactlyTTL ==
    /\ got.done /\ got.raw.kind = "rec" /\ Age(got) = CACHE_DURATION_MS
    /\ got.data.hit

PutThenGet == lastPut.done /\ got.done /\ SameKey(lastPut, got.symbol)

C4_MalformedIsAbsent ==
    (got.done /\ got.raw.kind \in MalformedKinds) => ~got.data.hit

\* C18: a lookup writes nothing: every value stored under another key stays as it
\* was, nothing is added, and the value under the key looked up stays as it was
\* unless it is a record older than CACHE_DURATION_MS, which the lookup reports
\* absent and removes.
C18_GetLeavesStoreAlone ==
    [][\A symbol \in CacheSymbols :
          CacheGet(symbol) =>
              LET key == CacheKey(source, symbol, marketSym, lookback)
                  evicted == /\ key \in DOMAIN store
                             /\ store[key].kind = "rec"
                             /\ now - store[key].ts > CACHE_DURATION_MS
              IN  /\ DOMAIN store' = IF evicted THEN DOMAIN store \ {key} ELSE DOMAIN store
                  /\ \A k \in DOMAIN store' : store'[k] = store[k]
                  /\ evicted => ~got'.data.hit]_vars

C18_ExpiredEvictedOtherKept ==
    /\ got.done /\ got.raw.kind = "rec" /\ Age(got) > CACHE_DURATION_MS
    /\ CacheKey(got.src, got.symbol, got.market, got.lb) \notin DOMAIN store
    /\ DOMAIN store # {}

----------------------------------------------------------------------------
(* The cache across batches with different settings *)

\* tickers and market symbols as typed, with and without the separator of the key
KeyTickers == {<<"A">>, <<"A","_","B">>}
KeyMarkets == {<<"S","P","Y">>, <<"B","_","S","P","Y">>}
KeyLookbacks == {DEFAULT_LOOKBACK_DAYS, 2 * DEFAULT_LOOKBACK_DAYS}
KeyBetas == {Num(1, 1), Num(3, 2)}

\* v0.2.0 lines 867-870: a click reads the source, the market symbol and the lookback
ReadSettings(src, marketRaw, lbRaw) ==
    /\ pc = "cache"
    /\ source' = src
    /\ marketSym' = normalizeTicker(marketRaw, src)
    /\ lookback' = LookbackV2(lbRaw)
    /\ UNCHANGED <<ver, pc, now, store, holdings, idx, marketRets, rows, results, total,
                   err, fetchLog, slept, inflight, setCalls, lastPut, got, calls,
                   lookups, calc>>

KeysNext ==
    \/ \E src \in Sources, marketRaw \in KeyMarkets, lbRaw \in KeyLookbacks :
          ReadSettings(src, marketRaw, lbRaw)
    \/ \E t \in KeyTickers, beta \in KeyBetas :
          CachePut(normalizeTicker(t, source), beta, 2 * MIN_POINTS, TRUE)
    \/ \E t \in KeyTickers : CacheGet(normalizeTicker(t, source))

SpecKeys == CacheInit /\ [][KeysNext]_vars

\* the tuple a call was made for, and the key it was made under
TupleOf(a) == <<a.src, a.symbol, a.market, a.lb>>
KeyOf(a) == CacheKey(a.src, a.symbol, a.market, a.lb)
\* C21: a write and a later lookup made for two different tuples (source, symbol,
\* market symbol, lookback) are made under two different keys, also when a symbol
\* or a market symbol contains "_"; and a lookup that hits while the store holds
\* nothing but the entry of the latest write was made for the very tuple that
\* write was made for.
C21_KeyIsInjective ==
    /\ []((lastPut.done /\ got.done /\ TupleOf(lastPut) # TupleOf(got))
             => KeyOf(lastPut) # KeyOf(got))
    /\ [][\A t \in KeyTickers :
             (/\ CacheGet(normalizeTicker(t, source))
              /\ lastPut.done /\ lastPut.ok
              /\ DOMAIN store = {KeyOf(lastPut)}
              /\ got'.data.hit)
                => TupleOf(got') = TupleOf(lastPut)]_vars

----------------------------------------------------------------------------
(* The functions on their own *)

\* return vectors: every short one, and long ones made of a repeated pattern
ReturnValues == {-4, 0, 8}
ShortVectors == SeqsUpTo(ReturnValues, MaxVecLen)
Repeat(pattern, len) == [i \in 1..len |-> pattern[((i - 1) % Len(pattern)) + 1]]
LongVectors ==
    {Repeat(q, len) : q \in {<<8, -4>>, <<8, 8, -4, 0>>, <<0>>},
                      len \in {MIN_POINTS - 1, MIN_POINTS}}
VectorPairs ==
    {<<a, m>> \in (ShortVectors \cup LongVectors) \X (ShortVectors \cup LongVectors) :
        Len(a) = Len(m)}

\* return series with unique dates, in any order; the value tells the date and
\* the series apart
DateOrders == {q \in SeqsUpTo(1..MaxDates, MaxDates) :
                  \A i, j \in 1..Len(q) : i # j => q[i] # q[j]}
AssetSeries(q) == [i \in 1..Len(q) |-> [date |-> q[i], r |-> q[i]]]
MarketSeries(q) == [i \in 1..Len(q) |-> [date |-> q[i], r |-> -q[i]]]

CsvKinds == {"good", "nodate", "badclose", "emptyclose"}
JsonKinds == {"good", "nullclose", "zerots"}
CsvResponses ==
    [http : BOOLEAN, shaped : {TRUE}, hasDate : BOOLEAN, hasClose : BOOLEAN,
     data : SeqsUpTo(CsvKinds, MaxRespLines)]
JsonResponses ==
    [http : BOOLEAN, shaped : BOOLEAN, hasDate : {TRUE}, hasClose : {TRUE},
     data : SeqsUpTo(JsonKinds, MaxRespLines)]

FnInit ==
    /\ ver = "v2" /\ pc = "fn" /\ now = 0
    /\ store = EmptyStore
    /\ source = "" /\ marketSym = <<>> /\ lookback = 0
    /\ holdings = <<>> /\ idx = 0
    /\ marketRets = NoRets /\ rows = <<>>
    /\ results = <<>> /\ total = NoTotal /\ err = ""
    /\ fetchLog = <<>> /\ slept = FALSE /\ inflight = 0 /\ setCalls = 0
    /\ lastPut = NoPut /\ got = NoGet /\ calls = 0 /\ lookups = <<>>
    /\ calc = NoCalc

FnFrame ==
    UNCHANGED <<ver, pc, now, store, source, marketSym, lookback, holdings, idx,
                marketRets, rows, results, total, err, fetchLog, slept, inflight,
                setCalls, lastPut, got, calls, lookups>>

\* calculateBeta(asset, mkt) of v0.2.0, betaFromReturns(assetR, mktR) of v0.1.0
FnBeta(fn, a, m) ==
    /\ pc = "fn" /\ calc = NoCalc
    /\ calc' = [NoCalc EXCEPT !.op = "beta", !.fn = fn, !.a = a, !.m = m,
                  !.beta = IF fn = "calculateBeta" THEN calculateBeta(a, m)
                           ELSE betaFromReturns(a, m)]
    /\ FnFrame

\* alignReturns(asset, mkt)
FnAlign(asset, mkt) ==
    /\ pc = "fn" /\ calc = NoCalc
    /\ calc' = [NoCalc EXCEPT !.op = "align", !.fn = "alignReturns", !.a = asset,
                  !.m = mkt, !.al = alignReturns(asset, mkt)]
    /\ FnFrame

\* fetchPrices of v0.1.0, fetchPricesStooq and fetchPricesYahoo of v0.2.0, given
\* the response
FnFetch(fn, resp) ==
    /\ pc = "fn" /\ calc = NoCalc
    /\ calc' = [NoCalc EXCEPT !.op = "fetch", !.fn = fn, !.resp = resp,
                  !.res = IF fn = "fetchPrices" THEN fetchPrices(resp)
                          ELSE IF fn = "fetchPricesStooq" THEN fetchPricesStooq(resp)
                          ELSE fetchPricesYahoo(resp)]
    /\ FnFrame

FnNext ==
    \/ \E fn \in {"calculateBeta", "betaFromReturns"}, p \in VectorPairs :
          FnBeta(fn, p[1], p[2])
    \/ \E qa \in DateOrders, qm \in DateOrders :
          FnAlign(AssetSeries(qa), MarketSeries(qm))
    \/ \E fn \in {"fetchPrices", "fetchPricesStooq"}, resp \in CsvResponses :
          FnFetch(fn, resp)
    \/ \E resp \in JsonResponses : FnFetch("fetchPricesYahoo", resp)

SpecFunctions == FnInit /\ [][FnNext]_vars

----------------------------------------------------------------------------
(* Claims about the functions *)

\* the market vector's sample variance is zero
ZeroVariance(m) == SumDevProd(m, m) = 0
\* sample covariance over sample variance: the n-1 divisors cancel
CovOverVar(a, m) == Num(SumDevProd(a, m), SumDevProd(m, m))

\* C12: for equal-length vectors of length n the beta is undefined exactly when
\* n < 2 or the market vector's sample variance is zero; otherwise it is the sample
\* covariance over the sample variance, which is 1 when the same vector is given as
\* asset and as market.
C12_BetaDefinedFromTwoPoints ==
    calc.op = "beta" =>
        LET undef == Len(calc.m) < 2 \/ ZeroVariance(calc.m)
        IN  /\ isNaN(calc.beta) = undef
            /\ ~undef => calc.beta = CovOverVar(calc.a, calc.m)
            /\ (~undef /\ calc.a = calc.m) => calc.beta = Num(1, 1)

\* the data lines that carry a date and a numeric close
UsableLines(resp) == Cardinality({i \in 1..Len(resp.data) : resp.data[i] = "good"})
\* an error status, a text of the wrong shape, a CSV header without its Date or
\* Close column, or fewer than 2 usable lines
Unavailable(resp) ==
    \/ ~resp.http \/ ~resp.shaped \/ ~resp.hasDate \/ ~resp.hasClose
    \/ UsableLines(resp) < 2

\* C13: a fetch function throws for every response that is empty, malformed or has
\* fewer than 2 usable price rows, and never returns a history of 0 or 1 rows.
C13_FetchFailsWithoutTwoRows ==
    calc.op = "fetch" =>
        /\ Unavailable(calc.resp) => ~calc.res.ok
        /\ calc.res.ok => Len(calc.res.rows) >= 2

DatesOf(series) == {series[i].date : i \in 1..Len(series)}

\* C15: for series with unique dates, the two vectors alignReturns gives have the
\* same length, the number of dates the series share; position k of both holds the
\* returns of one date; and the asset's order is kept.  With no shared date both
\* are empty.
C15_AlignedByDate ==
    calc.op = "align" =>
        LET a == calc.a
            m == calc.m
            xs == calc.al.asset
            ys == calc.al.mkt
        IN  /\ Len(xs) = Len(ys)
            /\ Len(xs) = Cardinality(DatesOf(a) \cap DatesOf(m))
            /\ \A k \in 1..Len(xs) :
                  \E i \in 1..Len(a), q \in 1..Len(m) :
                      a[i].date = m[q].date /\ a[i].r = xs[k] /\ m[q].r = ys[k]
            /\ \A k1, k2 \in 1..Len(xs) :
                  k1 < k2 => \E i1, i2 \in 1..Len(a) :
                                 i1 < i2 /\ a[i1].r = xs[k1] /\ a[i2].r = xs[k2]
            /\ DatesOf(a) \cap DatesOf(m) = {} => xs = <<>> /\ ys = <<>>

C15_TwoSharedDatesOutOfOrder ==
    /\ calc.op = "align" /\ Len(calc.a) = 3 /\ Len(calc.m) = 2
    /\ Len(calc.al.asset) = 2
    /\ calc.a[1].date > calc.a[3].date /\ calc.m[1].date < calc.m[2].date
    /\ calc.a[2].date \notin DatesOf(calc.m)

====
